---------------------------- MODULE Spec2Model ----------------------------
(***************************************************************************)
(* A model of the ledger of IA_Contable: the ingestion pipeline            *)
(* (src/src/ingestion/pipeline.py), the SQLite schema                      *)
(* (src/src/db/database.py) and the report catalogue                      *)
(* (src/src/ai/accounting_tasks.py).                                       *)
(*                                                                         *)
(* Tables are sequences in rowid order; an AUTOINCREMENT id is the row's   *)
(* position.  Money is modelled by integers (the code uses floats; sums    *)
(* of the small integers used here are exact in both).  Every SQL          *)
(* statement that commits is one atomic step; the Python between two       *)
(* statements only touches locals of the run and is folded into the step   *)
(* that follows the statement.                                             *)
(***************************************************************************)
EXTENDS Integers, Sequences, FiniteSets, TLC

(***************************************************************************)
(* Bounds of the model.                                                    *)
(***************************************************************************)
MaxDocs == 2
\* rows (transactions) in the ledger of Spec
MaxTx == 2

(***************************************************************************)
(* Program constants.                                                      *)
(***************************************************************************)
TaxRatePct == 19

Procs == {1, 2}

VARIABLES
    documents,        \* table documents
    transactions,     \* table transactions
    transaction_lines,\* table transaction_lines
    accounts,         \* table accounts
    journal_entries,  \* table journal_entries
    vector_index,     \* transaction texts / pages held by the FAISS index
    run,              \* run[p]: the locals of the ingest call of process p
    posting,          \* one call of generate_journal_entries_for_transaction
    report            \* the last report call and what it returned or raised

ledger == <<documents, transactions, transaction_lines, accounts, journal_entries>>
vars == <<documents, transactions, transaction_lines, accounts, journal_entries,
          vector_index, run, posting, report>>

(***************************************************************************)
(* Sequence helpers.                                                       *)
(***************************************************************************)
RECURSIVE SumSeq(_)
SumSeq(s) == IF s = <<>> THEN 0 ELSE Head(s) + SumSeq(Tail(s))

RECURSIVE SelectSeqBy(_, _)
\* the subsequence of the rows of s whose index is in keep, order kept
SelectSeqBy(s, keep) ==
    IF s = <<>> THEN <<>>
    ELSE LET n == Len(s)
             front == SelectSeqBy(SubSeq(s, 1, n - 1), keep)
         IN IF n \in keep THEN Append(front, s[n]) ELSE front

(***************************************************************************)
(* Spreadsheet cells.  A cell is absent (no such column: row.get gives     *)
(* None), empty (the column is there and the cell is blank: pandas gives   *)
(* NaN), a text float() rejects, or a number.                              *)
(***************************************************************************)
NoCell == [kind |-> "absent", val |-> 0]
EmptyCell == [kind |-> "nan", val |-> 0]
TextCell == [kind |-> "text", val |-> 0]
Num(n) == [kind |-> "num", val |-> n]

\* float("nan"); SQLite stores it as NULL.  The model writes it as an
\* integer below every amount, so that "NaN > 0" is false as in Python
NaN == -1000

\* Python truthiness of row.get(col): None and 0 are falsy, NaN is truthy
Truthy(c) == \/ c.kind = "text"
             \/ c.kind = "nan"
             \/ c.kind = "num" /\ c.val # 0

\* float(c) raises ValueError on a text
FloatRaises(c) == c.kind = "text"

\* float(c) of a cell float() accepts
FloatOf(c) == IF c.kind = "nan" THEN NaN ELSE c.val

\* float arithmetic: NaN propagates
Add(a, b) == IF a = NaN \/ b = NaN THEN NaN ELSE a + b

Mul(a, b) == IF a = NaN \/ b = NaN THEN NaN ELSE a * b


(***************************************************************************)
(* Transaction numbers.  A number is a string; the model writes the string *)
(* base & "-DUP" & n1 & "-DUP" & n2 ... as the tuple <<base, n1, n2, ...>>,*)
(* so that a raw cell "X-DUP1" and the suffix form generated from "X" are  *)
(* the same value.  <<"AUTO", i>> is the default f"AUTO-{idx}"; no raw     *)
(* cell of the model has the base "AUTO".                                  *)
(***************************************************************************)
NoNumber == <<>>

\* str.strip() on the base strings of the model
StripStr(s) == IF s = " X " THEN "X" ELSE s

\* pipeline.py line 235
RawNumber(cell, idx) ==
    IF cell = NoNumber THEN <<"AUTO", idx>>
    ELSE [cell EXCEPT ![1] = StripStr(cell[1])]

\* mutant: an "if" in place of the "while": the first suffix, used or not
NextFreeOnce(original, counter, used) == original \o <<counter>>

RECURSIVE NextFree(_, _, _)
\* the while loop of lines 239-242, entered with the number already used
NextFree(original, counter, used) ==
    LET candidate == original \o <<counter>>
    IN IF candidate \in used THEN NextFree(original, counter + 1, used)
       ELSE candidate

\* mutant: the suffix is appended whether or not the number is used
AssignNumberAlwaysSuffix(raw, used) == NextFree(raw, 1, used)

\* lines 238-242: used is existing_tx_numbers and the numbers of the batch
AssignNumber(raw, used) ==
    IF raw \in used THEN NextFree(raw, 1, used) ELSE raw

(***************************************************************************)
(* Numeric fields of a row, lines 250-258.                                 *)
(***************************************************************************)
\* mutant: a cell that fails to parse takes its own default, the others stay
NormalizeAmountsKeepParsed(row) ==
    LET Parsed(c) == Truthy(c) /\ ~FloatRaises(c)
        quantity == IF Parsed(row.quantity) THEN FloatOf(row.quantity) ELSE 1
        unit_price == IF Parsed(row.unit_price) THEN FloatOf(row.unit_price) ELSE 0
        subtotal == IF Parsed(row.subtotal) THEN FloatOf(row.subtotal)
                    ELSE Mul(quantity, unit_price)
        tax_amount == IF Parsed(row.tax_amount) THEN FloatOf(row.tax_amount) ELSE 0
        amount == IF Parsed(row.amount) THEN FloatOf(row.amount)
                  ELSE Add(subtotal, tax_amount)
    IN [quantity |-> quantity, unit_price |-> unit_price,
        subtotal |-> subtotal, tax_amount |-> tax_amount,
        amount |-> amount]

NormalizeAmounts(row) ==
    IF \E c \in {row.quantity, row.unit_price, row.subtotal,
                 row.tax_amount, row.amount} : Truthy(c) /\ FloatRaises(c)
    THEN [quantity |-> 1, unit_price |-> 0, subtotal |-> 0,
          tax_amount |-> 0, amount |-> 0]
    ELSE LET quantity == IF Truthy(row.quantity) THEN FloatOf(row.quantity) ELSE 1
             unit_price == IF Truthy(row.unit_price) THEN FloatOf(row.unit_price) ELSE 0
             subtotal == IF Truthy(row.subtotal) THEN FloatOf(row.subtotal)
                         ELSE Mul(quantity, unit_price)
             tax_amount == IF Truthy(row.tax_amount) THEN FloatOf(row.tax_amount) ELSE 0
             amount == IF Truthy(row.amount) THEN FloatOf(row.amount)
                       ELSE Add(subtotal, tax_amount)
         IN [quantity |-> quantity, unit_price |-> unit_price,
             subtotal |-> subtotal, tax_amount |-> tax_amount,
             amount |-> amount]

\* line 288
NormalizeCategory(cell) == IF cell = "" THEN "General" ELSE cell

(***************************************************************************)
(* Classification of the sheet, line 197.                                  *)
(***************************************************************************)
Lower(c) ==
    CASE c = "Cliente" -> "cliente"
      [] c = "CLIENTE" -> "cliente"
      [] c = "Proveedor" -> "proveedor"
      [] OTHER -> c

DocTypeOf(columns) ==
    IF "Cliente" \in columns \/ "cliente" \in {Lower(c) : c \in columns}
    THEN "sales_invoice" ELSE "purchase_invoice"

(***************************************************************************)
(* The payloads built for a row, lines 261-290.                            *)
(***************************************************************************)
\* mutant: the payload leaves the status to the column's DEFAULT 'pending'
TxPayloadDefaultStatus(doc_id, doc_type, number, date, amount) ==
    [document_id |-> doc_id,
     transaction_date |-> date,
     transaction_type |-> doc_type,
     transaction_number |-> number,
     counterparty |-> "N/A",
     description |-> "Venta/Compra",
     amount |-> amount,
     status |-> "pending"]

TxPayload(doc_id, doc_type, number, date, amount) ==
    [document_id |-> doc_id,
     transaction_date |-> date,
     transaction_type |-> doc_type,
     transaction_number |-> number,
     counterparty |-> "N/A",
     description |-> "Venta/Compra",
     amount |-> amount,
     status |-> "completed"]

\* mutant: the amount is credited for every document type
TxLinePayloadCreditAlways(doc_type, n, category) ==
    [transaction_id |-> 0,
     line_number |-> 1,
     account_code |-> IF doc_type = "sales_invoice" THEN "1000" ELSE "2000",
     debit |-> IF doc_type = "purchase_invoice" THEN n.amount ELSE 0,
     credit |-> n.amount,
     quantity |-> n.quantity,
     unit_price |-> n.unit_price,
     subtotal |-> n.subtotal,
     tax_rate |-> IF n.tax_amount > 0 THEN TaxRatePct ELSE 0,
     tax_amount |-> n.tax_amount,
     category |-> category]

TxLinePayload(doc_type, n, category) ==
    [transaction_id |-> 0,
     line_number |-> 1,
     account_code |-> IF doc_type = "sales_invoice" THEN "1000" ELSE "2000",
     debit |-> IF doc_type = "purchase_invoice" THEN n.amount ELSE 0,
     credit |-> IF doc_type = "sales_invoice" THEN n.amount ELSE 0,
     quantity |-> n.quantity,
     unit_price |-> n.unit_price,
     subtotal |-> n.subtotal,
     tax_rate |-> IF n.tax_amount > 0 THEN TaxRatePct ELSE 0,
     tax_amount |-> n.tax_amount,
     category |-> category]

(***************************************************************************)
(* generate_journal_entries_for_transaction, lines 101-189.  The entry's   *)
(* description f"<prefix> - {description}" is the pair <<prefix,           *)
(* description>>.                                                          *)
(***************************************************************************)
Entry(transaction_id, transaction_date, code, debit, credit, prefix, description) ==
    [transaction_id |-> transaction_id,
     entry_date |-> transaction_date,
     account_code |-> code,
     debit |-> debit,
     credit |-> credit,
     description |-> <<prefix, description>>]

\* mutant: ">=" in place of ">"
HasTaxLineNonNegative(tax_amount) == tax_amount >= 0

\* lines 146-147 and 168-169
HasTaxLine(tax_amount) == tax_amount > 0

\* mutant: the whole amount is credited to revenue, no tax entry
SalesEntriesTaxAsRevenue(transaction_id, transaction_date, amount, subtotal, tax_amount, description) ==
    <<Entry(transaction_id, transaction_date, "1105", amount, 0,
            "Ingreso por venta", description),
      Entry(transaction_id, transaction_date, "4135", 0, amount,
            "Venta", description)>>

\* lines 125-155
SalesEntries(transaction_id, transaction_date, amount, subtotal, tax_amount, description) ==
    <<Entry(transaction_id, transaction_date, "1105", amount, 0,
            "Ingreso por venta", description),
      Entry(transaction_id, transaction_date, "4135", 0, subtotal,
            "Venta", description)>>
    \o (IF HasTaxLine(tax_amount)
        THEN <<Entry(transaction_id, transaction_date, "2408", 0, tax_amount,
                     "IVA venta", description)>>
        ELSE <<>>)

\* mutant: cash is credited for the subtotal
PurchaseEntriesCashForSubtotal(transaction_id, transaction_date, amount, subtotal, tax_amount, description) ==
    <<Entry(transaction_id, transaction_date, "6205", subtotal, 0,
            "Compra", description)>>
    \o (IF HasTaxLine(tax_amount)
        THEN <<Entry(transaction_id, transaction_date, "2408", tax_amount, 0,
                     "IVA compra", description)>>
        ELSE <<>>)
    \o <<Entry(transaction_id, transaction_date, "1105", 0, subtotal,
               "Pago compra", description)>>

\* lines 157-187
PurchaseEntries(transaction_id, transaction_date, amount, subtotal, tax_amount, description) ==
    <<Entry(transaction_id, transaction_date, "6205", subtotal, 0,
            "Compra", description)>>
    \o (IF HasTaxLine(tax_amount)
        THEN <<Entry(transaction_id, transaction_date, "2408", tax_amount, 0,
                     "IVA compra", description)>>
        ELSE <<>>)
    \o <<Entry(transaction_id, transaction_date, "1105", 0, amount,
               "Pago compra", description)>>

GenerateJournalEntries(transaction_id, transaction_date, transaction_type, amount, subtotal, tax_amount, description) ==
    IF transaction_type = "sales_invoice"
    THEN SalesEntries(transaction_id, transaction_date, amount, subtotal,
                      tax_amount, description)
    ELSE IF transaction_type = "purchase_invoice"
    THEN PurchaseEntries(transaction_id, transaction_date, amount, subtotal,
                         tax_amount, description)
    ELSE <<>>


(***************************************************************************)
(* The tables, database.py lines 25-98, and the inserts of pipeline.py.    *)
(* A foreign key or NOT NULL violation makes the whole statement raise     *)
(* (PRAGMA foreign_keys = ON, line 15) and "with conn" rolls it back.      *)
(***************************************************************************)
Ids(table) == {table[i].id : i \in 1..Len(table)}

AccountCodes == {accounts[i].code : i \in 1..Len(accounts)}

RECURSIVE WithIds(_, _)
\* rows given the AUTOINCREMENT ids first + 1, first + 2, ...
WithIds(rows, first) ==
    IF rows = <<>> THEN <<>>
    ELSE LET n == Len(rows)
         IN Append(WithIds(SubSeq(rows, 1, n - 1), first),
                   [id |-> first + n] @@ rows[n])

\* store_document, lines 14-24
DocumentRow(doc_type) == [id |-> Len(documents) + 1, doc_type |-> doc_type]

\* bulk_insert_transactions, lines 27-40
InsertTransactions(rows) == transactions \o WithIds(rows, Len(transactions))

\* FOREIGN KEY(document_id) and amount REAL NOT NULL
TransactionsInsertable(rows) ==
    \A i \in 1..Len(rows) :
        /\ rows[i].document_id \in Ids(documents)
        /\ rows[i].amount # NaN

\* mutant: the lines are not stored
InsertNoLines(rows) == transaction_lines

\* bulk_insert_transaction_lines, lines 43-57
InsertTransactionLines(rows) ==
    transaction_lines \o WithIds(rows, Len(transaction_lines))

LinesInsertable(rows) ==
    \A i \in 1..Len(rows) : rows[i].transaction_id \in Ids(transactions)

\* mutant: the table is rewritten with the entries of the run
RewriteJournalEntries(rows) == WithIds(rows, 0)

\* bulk_insert_journal_entries, lines 60-72
InsertJournalEntries(rows) ==
    journal_entries \o WithIds(rows, Len(journal_entries))

JournalInsertable(rows) ==
    \A i \in 1..Len(rows) :
        /\ rows[i].transaction_id \in Ids(transactions)
        /\ rows[i].account_code \in AccountCodes

\* mutant: INSERT OR REPLACE, which deletes the row that has the code
EnsureAccountReplace(account_code, account_name, account_type) ==
    Append(SelectSeq(accounts, LAMBDA a : a.code # account_code),
           [id |-> Len(accounts) + 1,
            code |-> account_code,
            name |-> account_name,
            account_type |-> account_type,
            balance |-> 0,
            is_active |-> 1])

\* ensure_account_exists, lines 75-85: INSERT OR IGNORE on the UNIQUE code
EnsureAccountExists(account_code, account_name, account_type) ==
    IF account_code \in AccountCodes THEN accounts
    ELSE Append(accounts, [id |-> Len(accounts) + 1,
                           code |-> account_code,
                           name |-> account_name,
                           account_type |-> account_type,
                           balance |-> 0,
                           is_active |-> 1])

\* mutant: the list without the tax account
DefaultAccountsWithoutTax ==
    << <<"1105", "Caja", "Activo">>,
       <<"4135", "Ingresos por ventas", "Ingreso">>,
       <<"6205", "Gastos de operacion", "Gasto">> >>

\* ensure_default_accounts, lines 90-95
DefaultAccounts ==
    << <<"1105", "Caja", "Activo">>,
       <<"4135", "Ingresos por ventas", "Ingreso">>,
       <<"2408", "IVA", "Pasivo">>,
       <<"6205", "Gastos de operacion", "Gasto">> >>

(***************************************************************************)
(* The locals of one call of ingest_excel or ingest_pdf.  pc is the next   *)
(* statement that touches the database or the index; "idle" is before a    *)
(* call and after its return or raise (outcome says which).               *)
(* original_tx_numbers keeps the value of original_tx_number (line 238)    *)
(* of every row of the batch, row is the loop variable of line 233.        *)
(***************************************************************************)
\* before the first iteration of the loop there is no row
NoRow ==
    [number |-> NoNumber, date |-> 0, quantity |-> NoCell,
     unit_price |-> NoCell, subtotal |-> NoCell, tax_amount |-> NoCell,
     amount |-> NoCell, category |-> ""]

FreshRun ==
    [pc |-> "idle", outcome |-> "none", doc_id |-> 0, doc_type |-> "none",
     idx |-> 0, row |-> NoRow,
     existing_tx_numbers |-> {}, original_tx_numbers |-> <<>>,
     transactions |-> <<>>,
     transaction_lines |-> <<>>, journal_entries_to_insert |-> <<>>,
     acc_i |-> 0]

\* the call is over and its locals are gone; the model keeps which document
\* the call was about and how it ended
Raised(r) == [FreshRun EXCEPT !.outcome = "raised", !.doc_id = r.doc_id]

Returned(r) == [FreshRun EXCEPT !.outcome = "returned", !.doc_id = r.doc_id]

BatchNumbers(r) ==
    {r.transactions[i].transaction_number : i \in 1..Len(r.transactions)}

\* rows of the model: those in the table and those of the batches not yet inserted
PendingRows(p) == IF run[p].pc = "rows" THEN Len(run[p].transactions) ELSE 0

TotalRows == Len(transactions) + PendingRows(1) + PendingRows(2)

(***************************************************************************)
(* ingest_excel, lines 192-345.                                            *)
(***************************************************************************)
\* lines 194-221: classify the sheet and store the document
StoreExcelDocument(p, Columns, Oks) ==
    /\ run[p].pc = "idle"
    /\ Len(documents) < MaxDocs
    /\ \E columns \in Columns, ok \in Oks :
         IF ok
         THEN /\ documents' = Append(documents, DocumentRow(DocTypeOf(columns)))
              /\ run' = [run EXCEPT ![p] =
                    [FreshRun EXCEPT !.pc = "read_existing",
                                     !.doc_id = Len(documents) + 1,
                                     !.doc_type = DocTypeOf(columns)]]
         ELSE /\ documents' = documents
              /\ run' = [run EXCEPT ![p] = Raised(FreshRun)]
    /\ UNCHANGED <<transactions, transaction_lines, accounts, journal_entries,
                   vector_index, posting, report>>

\* lines 227-231
ReadExistingNumbers(p) ==
    /\ run[p].pc = "read_existing"
    /\ run' = [run EXCEPT ![p].pc = "rows",
                          ![p].existing_tx_numbers =
                              {transactions[i].transaction_number :
                                   i \in 1..Len(transactions)}]
    /\ UNCHANGED <<ledger, vector_index, posting, report>>

\* one iteration of the loop of lines 233-298
NormalizedRow(r, row) ==
    LET raw == RawNumber(row.number, r.idx)
        number == AssignNumber(raw, r.existing_tx_numbers \cup BatchNumbers(r))
        n == NormalizeAmounts(row)
    IN [r EXCEPT
          !.idx = r.idx + 1,
          !.row = row,
          !.existing_tx_numbers = r.existing_tx_numbers \cup {number},
          !.original_tx_numbers = Append(r.original_tx_numbers, raw),
          !.transactions = Append(r.transactions,
              TxPayload(r.doc_id, r.doc_type, number, row.date, n.amount)),
          !.transaction_lines = Append(r.transaction_lines,
              TxLinePayload(r.doc_type, n, NormalizeCategory(row.category)))]

NormalizeRow(p, Rows, MaxRows) ==
    /\ run[p].pc = "rows"
    /\ TotalRows < MaxRows
    /\ \E row \in Rows : run' = [run EXCEPT ![p] = NormalizedRow(run[p], row)]
    /\ UNCHANGED <<ledger, vector_index, posting, report>>

\* line 301, reached when the sheet has no more rows
BulkInsertTransactions(p, Oks) ==
    /\ run[p].pc = "rows"
    /\ \E ok \in Oks :
         IF ok /\ TransactionsInsertable(run[p].transactions)
         THEN /\ transactions' = InsertTransactions(run[p].transactions)
              /\ run' = [run EXCEPT ![p].pc = "select_ids"]
         ELSE /\ transactions' = transactions
              /\ run' = [run EXCEPT ![p] = Raised(run[p])]
    /\ UNCHANGED <<documents, transaction_lines, accounts, journal_entries,
                   vector_index, posting, report>>

\* mutant: the SELECT without its WHERE document_id = ?
TxIdsOfAnyDocument(doc_id) == transactions

\* line 306-309: SELECT ... WHERE document_id = ? ORDER BY rowid
TxIdsOfDocument(doc_id) ==
    SelectSeqBy(transactions,
                {i \in 1..Len(transactions) : transactions[i].document_id = doc_id})

\* lines 311-314: the i-th line takes the id of the i-th selected transaction
PairedLines(lines, tx_ids) ==
    [i \in 1..Len(lines) |->
        IF i <= Len(tx_ids)
        THEN [lines[i] EXCEPT !.transaction_id = tx_ids[i].id]
        ELSE lines[i]]

RECURSIVE EntriesFor(_, _, _)
\* lines 316-326, for the first n lines
EntriesFor(lines, tx_ids, n) ==
    IF n = 0 THEN <<>>
    ELSE EntriesFor(lines, tx_ids, n - 1) \o
         (IF n <= Len(tx_ids)
          THEN GenerateJournalEntries(tx_ids[n].id,
                                      tx_ids[n].transaction_date,
                                      tx_ids[n].transaction_type,
                                      tx_ids[n].amount,
                                      lines[n].subtotal,
                                      lines[n].tax_amount,
                                      tx_ids[n].description)
          ELSE <<>>)

\* lines 305-326
SelectTxIds(p) ==
    /\ run[p].pc = "select_ids"
    /\ LET tx_ids == TxIdsOfDocument(run[p].doc_id)
           lines == run[p].transaction_lines
       IN run' = [run EXCEPT
             ![p].pc = "insert_lines",
             ![p].transaction_lines = PairedLines(lines, tx_ids),
             ![p].journal_entries_to_insert =
                 EntriesFor(lines, tx_ids, Len(lines))]
    /\ UNCHANGED <<ledger, vector_index, posting, report>>

\* line 328
BulkInsertTransactionLines(p, Oks) ==
    /\ run[p].pc = "insert_lines"
    /\ \E ok \in Oks :
         IF ok /\ LinesInsertable(run[p].transaction_lines)
         THEN /\ transaction_lines' = InsertTransactionLines(run[p].transaction_lines)
              /\ run' = [run EXCEPT ![p].pc = "ensure_accounts", ![p].acc_i = 0]
         ELSE /\ transaction_lines' = transaction_lines
              /\ run' = [run EXCEPT ![p] = Raised(run[p])]
    /\ UNCHANGED <<documents, transactions, accounts, journal_entries,
                   vector_index, posting, report>>

\* the statement that follows ensure_default_accounts, lines 334-335
AfterAccounts(r) ==
    [r EXCEPT !.pc = IF r.journal_entries_to_insert # <<>>
                     THEN "insert_journal" ELSE "index"]

\* line 331: one iteration of the loop of lines 97-98
EnsureDefaultAccount(p, Oks) ==
    /\ run[p].pc = "ensure_accounts"
    /\ LET k == run[p].acc_i + 1
           a == DefaultAccounts[k]
       IN \E ok \in Oks :
            IF ok
            THEN /\ accounts' = EnsureAccountExists(a[1], a[2], a[3])
                 /\ run' = [run EXCEPT ![p] =
                       IF k = Len(DefaultAccounts)
                       THEN AfterAccounts([run[p] EXCEPT !.acc_i = k])
                       ELSE [run[p] EXCEPT !.acc_i = k]]
            ELSE /\ accounts' = accounts
                 /\ run' = [run EXCEPT ![p] = Raised(run[p])]
    /\ UNCHANGED <<documents, transactions, transaction_lines, journal_entries,
                   vector_index, posting, report>>

\* lines 334-336
BulkInsertJournalEntries(p, Oks) ==
    /\ run[p].pc = "insert_journal"
    /\ \E ok \in Oks :
         IF ok /\ JournalInsertable(run[p].journal_entries_to_insert)
         THEN /\ journal_entries' =
                     InsertJournalEntries(run[p].journal_entries_to_insert)
              /\ run' = [run EXCEPT ![p].pc = "index"]
         ELSE /\ journal_entries' = journal_entries
              /\ run' = [run EXCEPT ![p] = Raised(run[p])]
    /\ UNCHANGED <<documents, transactions, transaction_lines, accounts,
                   vector_index, posting, report>>

\* mutant: no try/except around the indexing step
AfterIndexErrorPropagates(r) == Raised(r)

\* what an exception of the indexing step does to the call: lines 342-343
\* and 366-367 catch it and the call goes on to return doc_id
AfterIndexError(r) == Returned(r)

\* lines 338-345 and 363-369; vectorstore.py lines 76-81
IndexDocuments(p, Oks) ==
    /\ run[p].pc = "index"
    /\ \E ok \in Oks :
         IF ok
         THEN /\ vector_index' = IF run[p].idx = 0 THEN vector_index
                                 ELSE vector_index \cup {run[p].doc_id}
              /\ run' = [run EXCEPT ![p] = Returned(run[p])]
         ELSE /\ vector_index' = vector_index
              /\ run' = [run EXCEPT ![p] = AfterIndexError(run[p])]
    /\ UNCHANGED <<ledger, posting, report>>

(***************************************************************************)
(* ingest_pdf, lines 348-369.  idx counts the pages.                       *)
(***************************************************************************)
StorePdfDocument(p, Pages, Oks) ==
    /\ run[p].pc = "idle"
    /\ Len(documents) < MaxDocs
    /\ \E pages \in Pages, ok \in Oks :
         IF ok
         THEN /\ documents' = Append(documents, DocumentRow("pdf"))
              /\ run' = [run EXCEPT ![p] =
                    [FreshRun EXCEPT !.pc = "index",
                                     !.doc_id = Len(documents) + 1,
                                     !.doc_type = "pdf",
                                     !.idx = pages]]
         ELSE /\ documents' = documents
              /\ run' = [run EXCEPT ![p] = Raised(FreshRun)]
    /\ UNCHANGED <<transactions, transaction_lines, accounts, journal_entries,
                   vector_index, posting, report>>


(***************************************************************************)
(* Inputs of the model.                                                    *)
(***************************************************************************)
Row(number, date, quantity, unit_price, subtotal, tax_amount, amount, category) ==
    [number |-> number, date |-> date, quantity |-> quantity,
     unit_price |-> unit_price, subtotal |-> subtotal,
     tax_amount |-> tax_amount, amount |-> amount, category |-> category]

\* header sets of a sheet: a sales sheet in two spellings, a purchase sheet
ColumnSets == {{"Cliente"}, {"CLIENTE"}, {"Proveedor"}}

\* the numeric cells of a row: consistent with tax, derived subtotal and
\* total, no tax, total different from subtotal + tax, negative tax,
\* a text in a numeric cell
AmountCases ==
    { <<Num(2), Num(1), Num(2), Num(1), Num(3)>>,
      <<Num(2), Num(1), NoCell, Num(1), NoCell>>,
      <<NoCell, NoCell, Num(2), Num(0), NoCell>>,
      <<NoCell, NoCell, Num(2), Num(1), Num(2)>>,
      <<NoCell, NoCell, Num(2), Num(-1), NoCell>>,
      <<NoCell, NoCell, TextCell, Num(1), Num(3)>> }

RowsWith(Numbers, Dates, Amounts, Categories) ==
    {Row(n, d, a[1], a[2], a[3], a[4], a[5], c) :
        n \in Numbers, d \in Dates, a \in Amounts, c \in Categories}

\* rows of the ledger specification: one raw number, every amount case
LedgerRows == RowsWith({<<"X">>}, {1}, AmountCases, {""})

NoPosting == [state |-> "none"]
NoReport == [task |-> "none"]

Init ==
    /\ documents = <<>>
    /\ transactions = <<>>
    /\ transaction_lines = <<>>
    /\ accounts = <<>>
    /\ journal_entries = <<>>
    /\ vector_index = {}
    /\ run = [p \in Procs |-> FreshRun]
    /\ posting = NoPosting
    /\ report = NoReport

(***************************************************************************)
(* Spec: one caller at a time (process 1) ingests sheets and PDFs; every   *)
(* statement that writes may fail.                                         *)
(***************************************************************************)
IngestStep(p, Rows, MaxRows, Oks) ==
    \/ StoreExcelDocument(p, ColumnSets, Oks)
    \/ ReadExistingNumbers(p)
    \/ NormalizeRow(p, Rows, MaxRows)
    \/ BulkInsertTransactions(p, Oks)
    \/ SelectTxIds(p)
    \/ BulkInsertTransactionLines(p, Oks)
    \/ EnsureDefaultAccount(p, Oks)
    \/ BulkInsertJournalEntries(p, Oks)
    \/ IndexDocuments(p, Oks)
    \/ StorePdfDocument(p, {0, 1}, Oks)

Next == IngestStep(1, LedgerRows, MaxTx, BOOLEAN)

Spec == Init /\ [][Next]_vars


(***************************************************************************)
(* SpecNumbers: as Spec, with one amount case and every raw number: the    *)
(* same number again, a literal suffix form, a padded cell, no number      *)
(* column.                                                                 *)
(***************************************************************************)
MaxNumbered == 3

RawNumberCells == {<<"X">>, <<" X ">>, <<"X", 1>>, NoNumber}

NumberRows ==
    RowsWith(RawNumberCells, {1}, {<<NoCell, NoCell, Num(2), Num(1), NoCell>>}, {""})

NextNumbers == IngestStep(1, NumberRows, MaxNumbered, BOOLEAN)

SpecNumbers == Init /\ [][NextNumbers]_vars

(***************************************************************************)
(* SpecCells: ingestion runs of process 1 over rows whose numeric cells    *)
(* are absent, blank, text, zero or inconsistent.  No statement fails for  *)
(* a reason other than the data.                                           *)
(***************************************************************************)
CellCases ==
    { <<Num(2), Num(1), Num(2), Num(1), Num(3)>>,
      <<Num(2), Num(1), Num(0), Num(1), NoCell>>,
      <<NoCell, NoCell, Num(2), Num(1), Num(0)>>,
      <<NoCell, NoCell, Num(2), Num(1), Num(2)>>,
      <<NoCell, NoCell, Num(2), Num(1), EmptyCell>>,
      <<NoCell, NoCell, EmptyCell, Num(1), Num(3)>>,
      <<NoCell, NoCell, TextCell, Num(1), Num(3)>>,
      <<NoCell, NoCell, NoCell, NoCell, NoCell>> }

CellRows == RowsWith({<<"X">>}, {1}, CellCases, {""})

NextCells == IngestStep(1, CellRows, MaxTx, {TRUE})

SpecCells == Init /\ [][NextCells]_vars

(***************************************************************************)
(* SpecConcurrent: two callers (two sessions of the application) ingest    *)
(* at the same time; their statements interleave in any order.  Every row  *)
(* has the raw number X.                                                   *)
(***************************************************************************)
ConcurrentRows ==
    RowsWith({<<"X">>}, {1}, {<<NoCell, NoCell, Num(2), Num(1), NoCell>>}, {""})

NextConcurrent == \E p \in Procs : IngestStep(p, ConcurrentRows, MaxTx, {TRUE})

SpecConcurrent == Init /\ [][NextConcurrent]_vars

(***************************************************************************)
(* SpecExpenses: ingestion runs of process 1 over sales and purchase       *)
(* sheets whose rows have a category or none, and a positive, another      *)
(* positive or a negative total.                                           *)
(***************************************************************************)
ExpenseRows ==
    RowsWith({<<"X">>}, {1},
             { <<NoCell, NoCell, Num(2), Num(1), NoCell>>,
               <<NoCell, NoCell, Num(2), Num(0), NoCell>>,
               <<NoCell, NoCell, Num(2), Num(0), Num(-3)>> },
             {"", "A"})

NextExpenses == IngestStep(1, ExpenseRows, MaxTx, {TRUE})

SpecExpenses == Init /\ [][NextExpenses]_vars

(***************************************************************************)
(* SpecPosting: generate_journal_entries_for_transaction applied to every  *)
(* input of a bounded set.                                                 *)
(***************************************************************************)
PostingCalls ==
    [state : {"called"},
     transaction_id : {1, 2},
     transaction_date : {1, 2},
     transaction_type : {"sales_invoice", "purchase_invoice", "pdf"},
     amount : {0, 2, 3},
     subtotal : {0, 2},
     tax_amount : {-1, 0, 1},
     description : {"Venta/Compra"},
     entries : {<<>>}]

InitPosting ==
    /\ documents = <<>>
    /\ transactions = <<>>
    /\ transaction_lines = <<>>
    /\ accounts = <<>>
    /\ journal_entries = <<>>
    /\ vector_index = {}
    /\ run = [p \in Procs |-> FreshRun]
    /\ posting \in PostingCalls
    /\ report = NoReport

ApplyPosting ==
    /\ posting.state = "called"
    /\ posting' = [posting EXCEPT
          !.state = "returned",
          !.entries = GenerateJournalEntries(
              posting.transaction_id, posting.transaction_date,
              posting.transaction_type, posting.amount, posting.subtotal,
              posting.tax_amount, posting.description)]
    /\ UNCHANGED <<ledger, vector_index, run, report>>

NextPosting == ApplyPosting

SpecPosting == InitPosting /\ [][NextPosting]_vars

(***************************************************************************)
(* SpecAccounts: ingestion runs of process 1 and, between any two of its   *)
(* statements, calls of ensure_account_exists by other callers with a      *)
(* default or another code and with the same or another name and type.     *)
(***************************************************************************)
AccountCalls ==
    { <<"1105", "Caja", "Activo">>, <<"1105", "Otro", "Pasivo">>,
      <<"9999", "Caja", "Activo">>, <<"9999", "Otro", "Pasivo">> }

\* a direct call of ensure_account_exists, lines 75-85
EnsureAccountCall(Calls) ==
    /\ \E c \in Calls : accounts' = EnsureAccountExists(c[1], c[2], c[3])
    /\ UNCHANGED <<documents, transactions, transaction_lines, journal_entries,
                   vector_index, run, posting, report>>

AccountRows ==
    RowsWith({<<"X">>}, {1}, {<<NoCell, NoCell, Num(2), Num(1), NoCell>>}, {""})

NextAccounts ==
    \/ EnsureAccountCall(AccountCalls)
    \/ IngestStep(1, AccountRows, 1, {TRUE})

SpecAccounts == Init /\ [][NextAccounts]_vars


(***************************************************************************)
(* The reports of accounting_tasks.py that take a date range.  A date is   *)
(* an integer, NoDate is None.  A statement that names a column its table  *)
(* does not have makes SQLite raise OperationalError ("no such column")    *)
(* when the statement is prepared, whatever the rows.                      *)
(***************************************************************************)
NoDate == 0

\* database.py lines 25-98
Columns(table) ==
    CASE table = "transactions" ->
           {"id", "document_id", "transaction_date", "transaction_type",
            "transaction_number", "counterparty", "description", "amount",
            "currency", "payment_method", "status", "tags", "created_at"}
      [] table = "transaction_lines" ->
           {"id", "transaction_id", "line_number", "account_code",
            "account_name", "debit", "credit", "description", "quantity",
            "unit_price", "subtotal", "tax_rate", "tax_amount", "category"}
      [] table = "journal_entries" ->
           {"id", "entry_date", "entry_number", "transaction_id",
            "account_code", "debit", "credit", "description", "reference",
            "created_at"}

\* the column the date conditions name: "date >= ?" and "date <= ?",
\* accounting_tasks.py lines 32, 37, 90, 95, 211, 214, 242, 246
DateColumn == "date"

\* the conditions are added when a bound is given (truthy)
HasDateFilter(start_date, end_date) == start_date # NoDate \/ end_date # NoDate

\* the statement cannot be prepared
QueryRaises(table, start_date, end_date) ==
    HasDateFilter(start_date, end_date) /\ DateColumn \notin Columns(table)

\* account_code LIKE 'd%' for the codes of the model
LeadingDigit(code) ==
    CASE code \in {"1105", "1000"} -> 1
      [] code \in {"2408", "2000"} -> 2
      [] code = "4135" -> 4
      [] code = "6205" -> 6
      [] OTHER -> 9

RECURSIVE SumDebitMinusCredit(_, _)
\* SUM(debit - credit) ... WHERE account_code LIKE 'd%', with "or 0";
\* SUM skips the rows whose debit - credit is NULL
SumDebitMinusCredit(entries, digit) ==
    IF entries = <<>> THEN 0
    ELSE LET e == entries[Len(entries)]
         IN SumDebitMinusCredit(SubSeq(entries, 1, Len(entries) - 1), digit)
            + (IF LeadingDigit(e.account_code) = digit
                  /\ e.debit # NaN /\ e.credit # NaN
               THEN e.debit - e.credit ELSE 0)

RECURSIVE SumAmountAnyType(_, _)
\* mutant: SUM(amount) without the condition on transaction_type
SumAmountAnyType(txs, type) ==
    IF txs = <<>> THEN 0
    ELSE SumAmountAnyType(SubSeq(txs, 1, Len(txs) - 1), type)
         + txs[Len(txs)].amount

RECURSIVE SumAmount(_, _)
\* SUM(amount) FROM transactions WHERE transaction_type = type, with "or 0"
SumAmount(txs, type) ==
    IF txs = <<>> THEN 0
    ELSE LET t == txs[Len(txs)]
         IN SumAmount(SubSeq(txs, 1, Len(txs) - 1), type)
            + (IF t.transaction_type = type THEN t.amount ELSE 0)

RECURSIVE SumCredit(_, _)
\* SUM(credit) FROM transaction_lines WHERE credit > 0 of one category
SumCredit(lines, category) ==
    IF lines = <<>> THEN 0
    ELSE LET l == lines[Len(lines)]
         IN SumCredit(SubSeq(lines, 1, Len(lines) - 1), category)
            + (IF l.category = category /\ l.credit > 0 THEN l.credit ELSE 0)

OperationalError == [error |-> "OperationalError"]

\* balance_sheet, lines 14-69
BalanceSheet(start_date, end_date) ==
    IF QueryRaises("journal_entries", start_date, end_date)
    THEN OperationalError
    ELSE LET activos == SumDebitMinusCredit(journal_entries, 1)
             pasivos == 0 - SumDebitMinusCredit(journal_entries, 2)
             patrimonio == 0 - SumDebitMinusCredit(journal_entries, 3)
         IN [activos |-> activos, pasivos |-> pasivos,
             patrimonio |-> patrimonio,
             total_pasivo_patrimonio |-> pasivos + patrimonio]

\* income_statement, lines 72-131
IncomeStatement(start_date, end_date) ==
    IF QueryRaises("journal_entries", start_date, end_date)
    THEN OperationalError
    ELSE LET ingresos == 0 - SumDebitMinusCredit(journal_entries, 4)
             costos == SumDebitMinusCredit(journal_entries, 5)
             gastos == SumDebitMinusCredit(journal_entries, 6)
         IN [ingresos |-> ingresos, costos |-> costos,
             utilidad_bruta |-> ingresos - costos,
             gastos_operacionales |-> gastos,
             utilidad_neta |-> (ingresos - costos) - gastos]

\* expenses_by_category, lines 192-223: the dict as its set of items
ExpensesByCategory(start_date, end_date) ==
    IF QueryRaises("transaction_lines", start_date, end_date)
    THEN OperationalError
    ELSE [items |->
            {<<transaction_lines[i].category,
               SumCredit(transaction_lines, transaction_lines[i].category)>> :
                 i \in {k \in 1..Len(transaction_lines) :
                           transaction_lines[k].credit > 0}}]

\* mutant: ORDER BY total ASC
OrderByTotalAsc(a, b) == a <= b

\* ORDER BY total DESC: a row with total a may come before one with total b
OrderByTotalDesc(a, b) == a >= b

\* the sequences that hold every element of S once
Orderings(S) ==
    {f \in [1..Cardinality(S) -> S] : \A x \in S : \E i \in DOMAIN f : f[i] = x}

\* the rows fetched by expenses_by_category (line 222), which give the
\* dict its order; rows of equal total come in the order SQLite picks
ExpensesRows(start_date, end_date) ==
    LET items == ExpensesByCategory(start_date, end_date).items
    IN {f \in Orderings(items) :
           \A i, j \in DOMAIN f : i < j => OrderByTotalDesc(f[i][2], f[j][2])}

\* cash_flow, lines 226-265
CashFlow(start_date, end_date) ==
    IF QueryRaises("transactions", start_date, end_date)
    THEN OperationalError
    ELSE LET ingresos == SumAmount(transactions, "sales_invoice")
             egresos == SumAmount(transactions, "purchase_invoice")
         IN [ingresos_totales |-> ingresos, egresos_totales |-> egresos,
             flujo_neto |-> ingresos - egresos]

(***************************************************************************)
(* The reports without a date range.  NULL is what SQLite stores for NaN   *)
(* and what SUM, AVG, MIN and MAX give over no rows; "x or 0" turns NULL   *)
(* and 0 into 0.  A quotient of two floats is kept as a fraction in lowest *)
(* terms.                                                                  *)
(***************************************************************************)
Null == NaN

\* mutant: the value as SQLite gives it, without "or 0"
OrZeroMissing(v) == v

\* result[k] or 0
OrZero(v) == IF v = Null \/ v = 0 THEN 0 ELSE v

RECURSIVE Gcd(_, _)
Gcd(a, b) == IF b = 0 THEN a ELSE Gcd(b, a % b)

Abs(a) == IF a < 0 THEN 0 - a ELSE a

\* a / b for b # 0
Frac(a, b) ==
    LET g == Gcd(Abs(a), Abs(b))
        sign == IF b < 0 THEN 0 - 1 ELSE 1
    IN [num |-> sign * (a \div g), den |-> sign * (b \div g)]

ZeroFrac == [num |-> 0, den |-> 1]

\* the rows of transactions with one transaction_type
OfType(txs, type) == SelectSeq(txs, LAMBDA t : t.transaction_type = type)

Amounts(txs) == {txs[i].amount : i \in 1..Len(txs)}

\* SUM(amount): NULL over no rows
SqlSumAmount(txs) ==
    IF txs = <<>> THEN Null ELSE SumSeq([i \in 1..Len(txs) |-> txs[i].amount])

\* MIN(amount) and MAX(amount): NULL over no rows
SqlMinAmount(txs) ==
    IF txs = <<>> THEN Null
    ELSE CHOOSE m \in Amounts(txs) : \A n \in Amounts(txs) : m <= n

SqlMaxAmount(txs) ==
    IF txs = <<>> THEN Null
    ELSE CHOOSE m \in Amounts(txs) : \A n \in Amounts(txs) : m >= n

\* AVG(amount) ... or 0
AvgAmountOrZero(txs) ==
    IF txs = <<>> THEN ZeroFrac
    ELSE Frac(SumSeq([i \in 1..Len(txs) |-> txs[i].amount]), Len(txs))

\* the SELECT of lines 139-149 and 168-178 with its "or 0"s: neither
\* statement has a condition on the date, year and month are not used
Summary(type) ==
    LET txs == OfType(transactions, type)
    IN [total |-> OrZero(Len(txs)),
        suma |-> OrZero(SqlSumAmount(txs)),
        promedio |-> AvgAmountOrZero(txs),
        minima |-> OrZero(SqlMinAmount(txs)),
        maxima |-> OrZero(SqlMaxAmount(txs)),
        unicos |-> OrZero(Cardinality({txs[i].counterparty : i \in 1..Len(txs)}))]

\* sales_summary, lines 134-160
SalesSummary(year, month) ==
    LET r == Summary("sales_invoice")
    IN [total_facturas |-> r.total, total_vendido |-> r.suma,
        promedio_factura |-> r.promedio, factura_minima |-> r.minima,
        factura_maxima |-> r.maxima, clientes_unicos |-> r.unicos]

\* purchase_summary, lines 163-189
PurchaseSummary(year, month) ==
    LET r == Summary("purchase_invoice")
    IN [total_compras |-> r.total, total_comprado |-> r.suma,
        promedio_compra |-> r.promedio, compra_minima |-> r.minima,
        compra_maxima |-> r.maxima, proveedores_unicos |-> r.unicos]

\* aging_analysis, lines 268-294: one item per counterparty of the pending
\* sales invoices; the list as its set of items
AgingAnalysis ==
    LET pending == SelectSeq(transactions,
                       LAMBDA t : t.transaction_type = "sales_invoice"
                                  /\ t.status = "pending")
        OfParty(c) == SelectSeq(pending, LAMBDA t : t.counterparty = c)
    IN [items |->
          {[cliente |-> c,
            facturas |-> Len(OfParty(c)),
            saldo |-> SqlSumAmount(OfParty(c)),
            ultima_transaccion |->
                CHOOSE d \in {OfParty(c)[i].transaction_date : i \in 1..Len(OfParty(c))} :
                    \A i \in 1..Len(OfParty(c)) : OfParty(c)[i].transaction_date <= d] :
             c \in {pending[i].counterparty : i \in 1..Len(pending)}}]

\* the type of the transaction a line is joined with, "none" without one
TypeOfLine(l) ==
    IF l.transaction_id \in Ids(transactions)
    THEN transactions[l.transaction_id].transaction_type ELSE "none"

RECURSIVE SumTaxAmount(_, _)
\* SUM(tax_amount) FROM transaction_lines [JOIN transactions ... WHERE
\* transaction_type = type] with "or 0"; SUM skips NULL
SumTaxAmount(lines, types) ==
    IF lines = <<>> THEN 0
    ELSE LET l == lines[Len(lines)]
         IN SumTaxAmount(SubSeq(lines, 1, Len(lines) - 1), types)
            + (IF l.tax_amount # Null /\ TypeOfLine(l) \in types
               THEN l.tax_amount ELSE 0)

\* tax_summary, lines 297-323
TaxSummary ==
    LET iva_total == SumTaxAmount(transaction_lines,
                         {"sales_invoice", "purchase_invoice", "none"})
        ventas_iva == SumTaxAmount(transaction_lines, {"sales_invoice"})
        compras_iva == SumTaxAmount(transaction_lines, {"purchase_invoice"})
    IN [iva_total |-> iva_total, iva_ventas |-> ventas_iva,
        iva_compras |-> compras_iva, iva_a_pagar |-> ventas_iva - compras_iva]

\* mutant: no test of income["ingresos"] == 0; the division raises
ProfitMarginNoGuard(income) ==
    IF income.ingresos = 0 THEN [error |-> "ZeroDivisionError"]
    ELSE [margen_bruto |-> Frac(income.utilidad_bruta * 100, income.ingresos),
          margen_neto |-> Frac(income.utilidad_neta * 100, income.ingresos)]

\* lines 334-343
ProfitMargin(income) ==
    IF income.ingresos = 0
    THEN [margen_bruto |-> ZeroFrac, margen_neto |-> ZeroFrac]
    ELSE [margen_bruto |-> Frac(income.utilidad_bruta * 100, income.ingresos),
          margen_neto |-> Frac(income.utilidad_neta * 100, income.ingresos)]

\* profit_margin_analysis, lines 326-343
ProfitMarginAnalysis == ProfitMargin(IncomeStatement(NoDate, NoDate))

\* months: int = 6
DefaultMonths == 6

\* date('now') of the model: later than every date of a row
Today == 3

\* trend_analysis, lines 346-370: a date of the model is its own month;
\* the list as its set of items
TrendAnalysis(months) ==
    LET cutoff == Today - (IF months = NoDate THEN DefaultMonths ELSE months)
        recent == SelectSeq(transactions, LAMBDA t : t.transaction_date >= cutoff)
        Group(mes, tipo) ==
            SelectSeq(recent, LAMBDA t : t.transaction_date = mes
                                         /\ t.transaction_type = tipo)
    IN [items |->
          {[mes |-> recent[i].transaction_date,
            tipo |-> recent[i].transaction_type,
            monto |-> SqlSumAmount(Group(recent[i].transaction_date,
                                         recent[i].transaction_type))] :
             i \in 1..Len(recent)}]

DateRangeTasks ==
    {"balance_sheet", "income_statement", "expenses_by_category", "cash_flow"}

\* sales_summary(year, month) and purchase_summary(year, month)
PeriodTasks == {"sales_summary", "purchase_summary"}

\* the reports that take no argument, and trend_analysis(months)
OtherTasks == {"aging_analysis", "tax_summary", "profit_margin", "trend_analysis"}

\* the keys of AVAILABLE_TASKS, lines 374-385
AllTasks == DateRangeTasks \cup PeriodTasks \cup OtherTasks

\* the number of positional parameters of a report
Arity(task) ==
    CASE task \in DateRangeTasks \cup PeriodTasks -> 2
      [] task = "trend_analysis" -> 1
      [] OTHER -> 0

\* a call with more arguments than the function has parameters
TypeError == [error |-> "TypeError"]

\* AVAILABLE_TASKS, lines 374-385, called with the arguments a and b
\* (NoDate: not given)
RunTask(task, a, b) ==
    IF \/ Arity(task) < 2 /\ b # NoDate
       \/ Arity(task) < 1 /\ a # NoDate
    THEN TypeError
    ELSE CASE task = "balance_sheet" -> BalanceSheet(a, b)
           [] task = "income_statement" -> IncomeStatement(a, b)
           [] task = "sales_summary" -> SalesSummary(a, b)
           [] task = "purchase_summary" -> PurchaseSummary(a, b)
           [] task = "expenses_by_category" -> ExpensesByCategory(a, b)
           [] task = "cash_flow" -> CashFlow(a, b)
           [] task = "aging_analysis" -> AgingAnalysis
           [] task = "tax_summary" -> TaxSummary
           [] task = "profit_margin" -> ProfitMarginAnalysis
           [] task = "trend_analysis" -> TrendAnalysis(a)

\* mutant: a report that also writes what it computed into accounts.balance
RunReportStoringBalance(Tasks, Starts, Ends) ==
    /\ \E task \in Tasks, start_date \in Starts, end_date \in Ends :
         LET result == RunTask(task, start_date, end_date)
         IN report' = [task |-> task, start_date |-> start_date,
                       end_date |-> end_date,
                       raised |-> ("error" \in DOMAIN result),
                       value |-> result]
    /\ accounts' = [i \in 1..Len(accounts) |->
                       [accounts[i] EXCEPT !.balance = 1]]
    /\ UNCHANGED <<documents, transactions, transaction_lines, journal_entries,
                   vector_index, run, posting>>

\* one call of a report; report keeps the call and what it returned or raised
RunReport(Tasks, Starts, Ends) ==
    /\ \E task \in Tasks, start_date \in Starts, end_date \in Ends :
         LET result == RunTask(task, start_date, end_date)
         IN report' = [task |-> task, start_date |-> start_date,
                       end_date |-> end_date,
                       raised |-> ("error" \in DOMAIN result),
                       value |-> result]
    /\ UNCHANGED <<ledger, vector_index, run, posting>>

(***************************************************************************)
(* SpecReports: ingestion runs of process 1 and, between two runs, report  *)
(* calls; dates 1 and 2 in the rows and bounds around them.  What a report *)
(* returned is kept until its caller is done with it; a report reads the   *)
(* ledger in one step, so holding the runs back meanwhile loses no ledger. *)
(***************************************************************************)
ReportRows ==
    RowsWith({<<"X">>}, {1, 2},
             { <<Num(2), Num(1), Num(2), Num(1), Num(3)>>,
               <<NoCell, NoCell, Num(2), Num(0), NoCell>> }, {""})

\* the caller is done with what the report returned (task_data, agent.py
\* lines 208-212) or with the exception it caught (lines 213-215)
DiscardReport ==
    /\ report # NoReport
    /\ report' = NoReport
    /\ UNCHANGED <<ledger, vector_index, run, posting>>

NextReports ==
    \/ report = NoReport /\ IngestStep(1, ReportRows, MaxTx, {TRUE})
    \/ /\ run[1].pc = "idle"
       /\ report = NoReport
       /\ RunReport(AllTasks, {NoDate, 1, 3}, {NoDate, 2})
    \/ DiscardReport

SpecReports == Init /\ [][NextReports]_vars

(***************************************************************************)
(* Properties.                                                             *)
(***************************************************************************)
SalesOrPurchase == {"sales_invoice", "purchase_invoice"}

EntriesOf(tx_id) == SelectSeq(journal_entries, LAMBDA e : e.transaction_id = tx_id)

LinesOf(tx_id) == SelectSeq(transaction_lines, LAMBDA l : l.transaction_id = tx_id)

DebitSum(entries) == SumSeq([i \in 1..Len(entries) |-> entries[i].debit])

CreditSum(entries) == SumSeq([i \in 1..Len(entries) |-> entries[i].credit])

Posted(tx_id) == EntriesOf(tx_id) # <<>>

\* C1: every sales or purchase transaction that has been posted has journal
\* entries whose debits and whose credits both add up to the transaction's
\* amount.
C1_Balanced ==
    \A i \in 1..Len(transactions) :
        LET t == transactions[i]
            es == EntriesOf(t.id)
        IN (t.transaction_type \in SalesOrPurchase /\ Posted(t.id))
           => /\ DebitSum(es) = CreditSum(es)
              /\ DebitSum(es) = t.amount

\* the (account, debit, credit) triples of a list of entries
Postings(entries) ==
    {<<entries[i].account_code, entries[i].debit, entries[i].credit>> :
        i \in 1..Len(entries)}

\* C2: generate_journal_entries_for_transaction returns exactly the entries
\* of the posting table: for a sale, debit 1105 for amount, credit 4135 for
\* subtotal and, only if tax_amount > 0, credit 2408 for tax_amount; for a
\* purchase, debit 6205 for subtotal, only if tax_amount > 0 debit 2408 for
\* tax_amount, and credit 1105 for amount; for another type, nothing.  Every
\* entry carries the given transaction id and date.
C2_PostingTable ==
    posting.state = "returned" =>
        LET es == posting.entries
            taxed == posting.tax_amount > 0
        IN /\ posting.transaction_type = "sales_invoice" =>
                /\ Len(es) = IF taxed THEN 3 ELSE 2
                /\ Postings(es) =
                     {<<"1105", posting.amount, 0>>,
                      <<"4135", 0, posting.subtotal>>}
                     \cup (IF taxed THEN {<<"2408", 0, posting.tax_amount>>}
                           ELSE {})
           /\ posting.transaction_type = "purchase_invoice" =>
                /\ Len(es) = IF taxed THEN 3 ELSE 2
                /\ Postings(es) =
                     {<<"6205", posting.subtotal, 0>>,
                      <<"1105", 0, posting.amount>>}
                     \cup (IF taxed THEN {<<"2408", posting.tax_amount, 0>>}
                           ELSE {})
           /\ posting.transaction_type \notin SalesOrPurchase => es = <<>>
           /\ \A i \in 1..Len(es) :
                /\ es[i].transaction_id = posting.transaction_id
                /\ es[i].entry_date = posting.transaction_date

C2_Witness ==
    /\ posting.state = "returned"
    /\ posting.transaction_type = "purchase_invoice"
    /\ posting.tax_amount > 0
    /\ posting.amount # posting.subtotal + posting.tax_amount
    /\ Len(posting.entries) = 3

\* C3: no transaction whose line has tax_amount 0 has a journal entry on
\* account 2408, and no journal entry on 2408 has debit and credit both 0.
C3_TaxOmitted ==
    /\ \A i \in 1..Len(journal_entries) :
          journal_entries[i].account_code = "2408" =>
              ~(journal_entries[i].debit = 0 /\ journal_entries[i].credit = 0)
    /\ \A i \in 1..Len(transaction_lines), j \in 1..Len(journal_entries) :
          (/\ transaction_lines[i].tax_amount = 0
           /\ journal_entries[j].transaction_id = transaction_lines[i].transaction_id)
          => journal_entries[j].account_code # "2408"

C3_Witness ==
    \E i \in 1..Len(transaction_lines) :
        /\ transaction_lines[i].tax_amount = 0
        /\ transaction_lines[i].subtotal # 0
        /\ Len(EntriesOf(transaction_lines[i].transaction_id)) = 2

\* C4: when runs do not overlap, no two transactions of the ledger have the
\* same transaction_number.
C4_UniqueNumbers ==
    \A i, j \in 1..Len(transactions) :
        i # j => transactions[i].transaction_number # transactions[j].transaction_number

\* X-DUP2 is only ever generated, and here for a row of a later document
C4_Witness ==
    \E i, j \in 1..Len(transactions) :
        /\ transactions[i].transaction_number = <<"X">>
        /\ transactions[j].transaction_number = <<"X", 2>>
        /\ transactions[i].document_id # transactions[j].document_id

LedgerNumbers ==
    {transactions[i].transaction_number : i \in 1..Len(transactions)}

\* C5: while a batch is being normalised, each of its rows has its raw
\* number if that was unused (in the ledger and by the earlier rows of the
\* batch), and otherwise raw-DUPn for the smallest n >= 1 that makes an
\* unused number; three rows X into an empty ledger get X, X-DUP1, X-DUP2.
C5_SmallestSuffix ==
    \A p \in Procs :
        run[p].pc = "rows" =>
          LET batch == run[p].transactions
              raws == run[p].original_tx_numbers
          IN /\ Len(raws) = Len(batch)
             /\ \A i \in 1..Len(batch) :
                  LET used == LedgerNumbers \cup
                              {batch[j].transaction_number : j \in 1..(i - 1)}
                      number == batch[i].transaction_number
                  IN IF raws[i] \notin used THEN number = raws[i]
                     ELSE \E n \in 1..(Cardinality(used) + 1) :
                            /\ number = raws[i] \o <<n>>
                            /\ number \notin used
                            /\ \A m \in 1..(n - 1) : raws[i] \o <<m>> \in used
             /\ (LedgerNumbers = {} /\ raws = << <<"X">>, <<"X">>, <<"X">> >>)
                => [i \in 1..3 |-> batch[i].transaction_number]
                   = << <<"X">>, <<"X", 1>>, <<"X", 2>> >>

C5_Witness ==
    /\ run[1].pc = "rows"
    /\ transactions = <<>>
    /\ run[1].original_tx_numbers = << <<"X">>, <<"X">>, <<"X">> >>

C5_WitnessLedger ==
    /\ run[1].pc = "rows"
    /\ <<"X">> \in LedgerNumbers
    /\ <<"X", 1>> \in LedgerNumbers
    /\ run[1].original_tx_numbers = << <<"X">> >>

UniqueCodes ==
    \A i, j \in 1..Len(accounts) : i # j => accounts[i].code # accounts[j].code

AccountsKept ==
    /\ Len(accounts') >= Len(accounts)
    /\ \A i \in 1..Len(accounts) : accounts'[i] = accounts[i]

\* C6: whatever calls of ensure_account_exists are made, and in whatever
\* order callers interleave, there is one account row per code and no call
\* changes a row that exists.
C6_Idempotent == [](UniqueCodes) /\ [][AccountsKept]_vars

\* the run has made its call for 1105 "Caja" and the row, created by
\* another caller, still says "Otro"
C6_Witness ==
    /\ run[1].pc = "ensure_accounts"
    /\ run[1].acc_i >= 1
    /\ \E i \in 1..Len(accounts) :
          accounts[i].code = "1105" /\ accounts[i].name = "Otro"

\* C7: when a run is about to insert its journal entries the accounts
\* 1105, 4135, 2408 and 6205 exist, and every journal entry's account_code
\* is the code of an account.
C7_AccountsBeforePosting ==
    /\ \A p \in Procs :
          run[p].pc = "insert_journal" =>
              {"1105", "4135", "2408", "6205"} \subseteq AccountCodes
    /\ \A i \in 1..Len(journal_entries) :
          journal_entries[i].account_code \in AccountCodes

C7_Witness ==
    /\ Len(journal_entries) >= 3
    /\ \E i \in 1..Len(journal_entries) : journal_entries[i].account_code = "2408"

\* C8: after an ingestion that raised, the ledger holds no document and no
\* transaction of that document, and no transaction is without its line
\* and its postings.
C8_AllOrNothing ==
    \A p \in Procs :
        (run[p].outcome = "raised" /\ run[p].doc_id # 0) =>
            /\ \A i \in 1..Len(documents) : documents[i].id # run[p].doc_id
            /\ \A i \in 1..Len(transactions) :
                  /\ transactions[i].document_id # run[p].doc_id
                  /\ LinesOf(transactions[i].id) # <<>>
                  /\ Posted(transactions[i].id)

\* C9: the step of a call that is at its indexing statement changes no
\* table and ends the call by returning the document id, whether or not
\* the indexing raised.
C9_IndexFailureCaught ==
    [][\A p \in Procs :
          (run[p].pc = "index" /\ run'[p] # run[p]) =>
              /\ ledger' = ledger
              /\ run'[p].pc = "idle"
              /\ run'[p].outcome = "returned"
              /\ run'[p].doc_id = run[p].doc_id]_vars

\* the call returned the id of a document with transactions, and the index
\* does not hold it: the indexing step failed
C9_Witness ==
    /\ run[1].outcome = "returned"
    /\ run[1].doc_id \notin vector_index
    /\ \E i \in 1..Len(transactions) : transactions[i].document_id = run[1].doc_id
    /\ Posted(1)


ZeroValue(task) ==
    CASE task = "balance_sheet" ->
           [activos |-> 0, pasivos |-> 0, patrimonio |-> 0,
            total_pasivo_patrimonio |-> 0]
      [] task = "income_statement" ->
           [ingresos |-> 0, costos |-> 0, utilidad_bruta |-> 0,
            gastos_operacionales |-> 0, utilidad_neta |-> 0]
      [] task = "expenses_by_category" -> [items |-> {}]
      [] task = "cash_flow" ->
           [ingresos_totales |-> 0, egresos_totales |-> 0, flujo_neto |-> 0]

\* start_date is later than every transaction and journal-entry date of a
\* ledger that has transactions
LaterThanAllDates(start_date) ==
    /\ start_date # NoDate
    /\ transactions # <<>>
    /\ \A i \in 1..Len(transactions) :
          transactions[i].transaction_date < start_date
    /\ \A i \in 1..Len(journal_entries) :
          journal_entries[i].entry_date < start_date

\* C10: a date-range report called with a start_date later than every date
\* of a non-empty ledger does not raise and returns zero-valued aggregates
\* (an empty breakdown).
C10_LateStartGivesZeros ==
    [][(/\ report' # report
        /\ report'.task \in DateRangeTasks
        /\ LaterThanAllDates(report'.start_date))
       => (~report'.raised /\ report'.value = ZeroValue(report'.task))]_vars

\* a step of a report call: no ingestion run and no posting call moves
ReportStep == run' = run /\ posting' = posting /\ report'.task # "none"

\* d lies in the inclusive range [start_date, end_date]
InRange(d, start_date, end_date) ==
    /\ start_date = NoDate \/ d >= start_date
    /\ end_date = NoDate \/ d <= end_date

\* d lies in the period (year, month): every date of the model is in the
\* one year of the model and is its own month
InPeriod(d, year, month) == month = NoDate \/ d = month

TxsOfPeriod(type, year, month) ==
    SelectSeq(transactions,
              LAMBDA t : t.transaction_type = type
                         /\ InPeriod(t.transaction_date, year, month))

AssetsInRange(start_date, end_date) ==
    LET es == SelectSeq(journal_entries,
                  LAMBDA e : e.account_code = "1105"
                             /\ InRange(e.entry_date, start_date, end_date))
    IN DebitSum(es) - CreditSum(es)

\* C11: a report called with a date range or a period does not raise and
\* aggregates exactly the rows whose date lies in it: sales_summary and
\* purchase_summary count and sum the transactions of the period,
\* balance_sheet sums the journal entries whose entry date is in the range
C11_RangeAggregates ==
    [][(/\ ReportStep
        /\ report'.task \in {"sales_summary", "purchase_summary", "balance_sheet"}
        /\ (report'.start_date # NoDate \/ report'.end_date # NoDate))
       => /\ ~report'.raised
          /\ report'.task = "sales_summary" =>
               LET txs == TxsOfPeriod("sales_invoice", report'.start_date,
                                      report'.end_date)
               IN /\ report'.value.total_facturas = Len(txs)
                  /\ report'.value.total_vendido =
                        SumSeq([i \in 1..Len(txs) |-> txs[i].amount])
          /\ report'.task = "purchase_summary" =>
               LET txs == TxsOfPeriod("purchase_invoice", report'.start_date,
                                      report'.end_date)
               IN /\ report'.value.total_compras = Len(txs)
                  /\ report'.value.total_comprado =
                        SumSeq([i \in 1..Len(txs) |-> txs[i].amount])
          /\ report'.task = "balance_sheet" =>
               report'.value.activos =
                   AssetsInRange(report'.start_date, report'.end_date)]_vars

\* the part of C11 about the period reports alone: sales_summary called
\* with a period counts only the sales of that period
C11_SalesOfPeriod ==
    [][(/\ ReportStep
        /\ report'.task = "sales_summary"
        /\ ~report'.raised)
       => report'.value.total_facturas =
              Len(TxsOfPeriod("sales_invoice", report'.start_date,
                              report'.end_date))]_vars

\* C12: a report call, whatever the report, its arguments and the ledger,
\* leaves documents, transactions, transaction_lines, accounts and
\* journal_entries unchanged
C12_ReadOnly == [][ReportStep => UNCHANGED ledger]_vars

\* every report has been called on a ledger that holds postings
C12_Witness ==
    /\ report.task = "tax_summary"
    /\ ~report.raised
    /\ journal_entries # <<>>
    /\ accounts # <<>>

NoRows ==
    /\ transactions = <<>>
    /\ transaction_lines = <<>>
    /\ journal_entries = <<>>

EmptyLedgerValue(task) ==
    CASE task \in DateRangeTasks -> ZeroValue(task)
      [] task = "sales_summary" ->
           [total_facturas |-> 0, total_vendido |-> 0,
            promedio_factura |-> ZeroFrac, factura_minima |-> 0,
            factura_maxima |-> 0, clientes_unicos |-> 0]
      [] task = "purchase_summary" ->
           [total_compras |-> 0, total_comprado |-> 0,
            promedio_compra |-> ZeroFrac, compra_minima |-> 0,
            compra_maxima |-> 0, proveedores_unicos |-> 0]
      [] task = "tax_summary" ->
           [iva_total |-> 0, iva_ventas |-> 0, iva_compras |-> 0,
            iva_a_pagar |-> 0]
      [] task = "profit_margin" ->
           [margen_bruto |-> ZeroFrac, margen_neto |-> ZeroFrac]
      [] task \in {"aging_analysis", "trend_analysis"} -> [items |-> {}]

\* C13: on a ledger without rows every report called without arguments
\* returns, with all-zero numeric fields or an empty collection
C13_EmptyLedgerZeros ==
    [][(/\ ReportStep
        /\ NoRows
        /\ report'.start_date = NoDate
        /\ report'.end_date = NoDate)
       => /\ ~report'.raised
          /\ report'.value = EmptyLedgerValue(report'.task)]_vars

C13_Witness ==
    /\ NoRows
    /\ report.task = "sales_summary"
    /\ report.start_date = NoDate
    /\ report.end_date = NoDate
    /\ report.value.total_vendido = 0


RECURSIVE NetCredit(_, _)
\* credit - debit summed over the entries of one account
NetCredit(entries, code) ==
    IF entries = <<>> THEN 0
    ELSE NetCredit(Tail(entries), code)
         + (IF Head(entries).account_code = code
            THEN Head(entries).credit - Head(entries).debit ELSE 0)

\* revenue and expenses of the ledger: the accounts the pipeline posts to
Revenue == NetCredit(journal_entries, "4135")

Expenses == 0 - NetCredit(journal_entries, "6205")

\* f is the quotient a * 100 / b
IsPercent(f, a, b) == f.den # 0 /\ f.num * b = a * 100 * f.den

\* C14: profit_margin returns gross and net margin 0 without raising when
\* the revenue is 0, and gross_profit / revenue * 100 and
\* net_income / revenue * 100 otherwise
C14_ProfitMargin ==
    [][(/\ ReportStep
        /\ report'.task = "profit_margin"
        /\ report'.start_date = NoDate
        /\ report'.end_date = NoDate)
       => /\ ~report'.raised
          /\ Revenue = 0 =>
               /\ report'.value.margen_bruto = ZeroFrac
               /\ report'.value.margen_neto = ZeroFrac
          /\ Revenue # 0 =>
               /\ IsPercent(report'.value.margen_bruto, Revenue, Revenue)
               /\ IsPercent(report'.value.margen_neto, Revenue - Expenses,
                            Revenue)]_vars

\* profit_margin has run on a ledger that holds only purchase invoices
C14_Witness ==
    /\ report.task = "profit_margin"
    /\ ~report.raised
    /\ journal_entries # <<>>
    /\ \A i \in 1..Len(transactions) :
          transactions[i].transaction_type = "purchase_invoice"
    /\ Revenue = 0
    /\ Expenses > 0
    /\ report.value.margen_neto = ZeroFrac

\* profit_margin has run on a ledger with sales and purchases
C14_WitnessRevenue ==
    /\ report.task = "profit_margin"
    /\ ~report.raised
    /\ Revenue = 2
    /\ Expenses = 2
    /\ report.value.margen_bruto = [num |-> 100, den |-> 1]
    /\ report.value.margen_neto = ZeroFrac


\* the ledger after one sales sheet of one row, with tax t > 0 and total
\* s + t, was ingested into the empty ledger
SingleSalesRow ==
    /\ Len(documents) = 1
    /\ documents[1].doc_type = "sales_invoice"
    /\ run[1].pc = "idle"
    /\ run[1].outcome = "returned"
    /\ Len(transaction_lines) = 1
    /\ transaction_lines[1].tax_amount > 0
    /\ Len(transactions) >= 1
    /\ transactions[1].amount =
          transaction_lines[1].subtotal + transaction_lines[1].tax_amount

\* C15: after a single sales row with subtotal s, tax t > 0 and total s + t
\* is ingested into an empty ledger there is exactly one transaction, a
\* sales_invoice of amount s + t; balance_sheet gives assets s + t and
\* liabilities t, income_statement revenue s and net income s,
\* sales_summary one invoice and s + t sold
C15_SalesScenario ==
    [][(/\ ReportStep
        /\ SingleSalesRow
        /\ report'.task \in {"balance_sheet", "income_statement", "sales_summary"}
        /\ report'.start_date = NoDate
        /\ report'.end_date = NoDate)
       => LET s == transaction_lines[1].subtotal
              t == transaction_lines[1].tax_amount
          IN /\ Len(transactions) = 1
             /\ transactions[1].transaction_type = "sales_invoice"
             /\ transactions[1].amount = s + t
             /\ ~report'.raised
             /\ report'.task = "balance_sheet" =>
                  /\ report'.value.activos = s + t
                  /\ report'.value.pasivos = t
             /\ report'.task = "income_statement" =>
                  /\ report'.value.ingresos = s
                  /\ report'.value.utilidad_neta = s
             /\ report'.task = "sales_summary" =>
                  /\ report'.value.total_facturas = 1
                  /\ report'.value.total_vendido = s + t]_vars

\* the scenario with s = 2 and t = 1, seen by balance_sheet
C15_Witness ==
    /\ SingleSalesRow
    /\ transaction_lines[1].subtotal = 2
    /\ transaction_lines[1].tax_amount = 1
    /\ report.task = "balance_sheet"
    /\ report.start_date = NoDate
    /\ report.end_date = NoDate
    /\ ~report.raised
    /\ report.value.activos = 3
    /\ report.value.pasivos = 1


\* the sum of amount over the transactions of one type
AmountOf(type) ==
    SumSeq([i \in 1..Len(transactions) |->
               IF transactions[i].transaction_type = type
               THEN transactions[i].amount ELSE 0])

\* the ledger after one purchase sheet of one row was ingested into the
\* empty ledger
SinglePurchaseRow ==
    /\ Len(documents) = 1
    /\ documents[1].doc_type = "purchase_invoice"
    /\ run[1].pc = "idle"
    /\ run[1].outcome = "returned"
    /\ Len(transactions) = 1

\* C16: cash_flow() without a date range returns inflow = the sum of amount
\* over the sales_invoice transactions, outflow = the sum over the
\* purchase_invoice transactions and net = inflow - outflow; after one
\* purchase row of total T in an empty ledger outflow is T and inflow is 0
C16_CashFlow ==
    [][(/\ ReportStep
        /\ report'.task = "cash_flow"
        /\ report'.start_date = NoDate
        /\ report'.end_date = NoDate)
       => /\ ~report'.raised
          /\ report'.value.ingresos_totales = AmountOf("sales_invoice")
          /\ report'.value.egresos_totales = AmountOf("purchase_invoice")
          /\ report'.value.flujo_neto =
                AmountOf("sales_invoice") - AmountOf("purchase_invoice")
          /\ SinglePurchaseRow =>
                /\ report'.value.egresos_totales = transactions[1].amount
                /\ report'.value.ingresos_totales = 0]_vars

\* the purchase scenario with T = 3
C16_Witness ==
    /\ SinglePurchaseRow
    /\ transactions[1].amount = 3
    /\ report.task = "cash_flow"
    /\ report.start_date = NoDate
    /\ report.end_date = NoDate
    /\ ~report.raised
    /\ report.value.egresos_totales = 3
    /\ report.value.ingresos_totales = 0

\* cash_flow on a ledger with a sale and a purchase
C16_WitnessBoth ==
    /\ report.task = "cash_flow"
    /\ ~report.raised
    /\ AmountOf("sales_invoice") = 3
    /\ AmountOf("purchase_invoice") = 2
    /\ report.value.flujo_neto = 1


\* the statements of a run after bulk_insert_transactions
AfterInsert ==
    {"select_ids", "insert_lines", "ensure_accounts", "insert_journal", "index"}

\* C17: whatever its numeric cells hold, a row makes ingest_excel emit one
\* transaction record and one line record and never makes it raise, so the
\* transactions created for a document are as many as the rows of its sheet
C17_OneTransactionPerRow ==
    \A p \in Procs :
        /\ run[p].pc = "rows" =>
              /\ Len(run[p].transactions) = run[p].idx
              /\ Len(run[p].transaction_lines) = run[p].idx
        /\ run[p].outcome # "raised"
        /\ (run[p].pc \in AfterInsert /\ run[p].doc_type # "pdf") =>
              Len(TxIdsOfDocument(run[p].doc_id)) = run[p].idx

\* the part of C17 about the loop alone: one record of each kind per row
C17_OneRecordPerRow ==
    \A p \in Procs :
        run[p].pc = "rows" =>
            /\ Len(run[p].transactions) = run[p].idx
            /\ Len(run[p].transaction_lines) = run[p].idx

\* the column of the cell is not in the sheet
Absent(c) == c.kind = "absent"

\* float() accepts every numeric cell of the row
AllParse(row) ==
    \A c \in {row.quantity, row.unit_price, row.subtotal, row.tax_amount,
              row.amount} : c.kind # "text"

\* C18: for a row whose numeric cells all parse, subtotal is
\* quantity * unit_price when the subtotal cell is absent (quantity 1 and
\* unit_price 0 when absent) and the cell's value otherwise; amount is
\* subtotal + tax_amount when the total cell is absent (tax 0 when absent)
\* and the cell's value otherwise
C18_DerivedAmounts ==
    \A p \in Procs :
        (run[p].pc = "rows" /\ run[p].idx > 0 /\ AllParse(run[p].row)) =>
            LET row == run[p].row
                line == run[p].transaction_lines[run[p].idx]
                tx == run[p].transactions[run[p].idx]
                quantity == IF Absent(row.quantity) THEN 1
                            ELSE FloatOf(row.quantity)
                unit_price == IF Absent(row.unit_price) THEN 0
                              ELSE FloatOf(row.unit_price)
                subtotal == IF Absent(row.subtotal) THEN Mul(quantity, unit_price)
                            ELSE FloatOf(row.subtotal)
                tax_amount == IF Absent(row.tax_amount) THEN 0
                              ELSE FloatOf(row.tax_amount)
                amount == IF Absent(row.amount) THEN Add(subtotal, tax_amount)
                          ELSE FloatOf(row.amount)
            IN /\ line.subtotal = subtotal
               /\ tx.amount = amount

\* C19: every transaction line has exactly one of debit and credit non-zero
\* and its subtotal + tax_amount is the amount of its parent transaction
C19_LineInvariant ==
    \A i \in 1..Len(transaction_lines) :
        LET l == transaction_lines[i]
        IN /\ (l.debit # 0) # (l.credit # 0)
           /\ l.transaction_id \in Ids(transactions)
           /\ Add(l.subtotal, l.tax_amount) =
                 transactions[l.transaction_id].amount


\* C20: when two ingest_excel runs interleave and both hold a row with the
\* same raw transaction number, no state has two transactions with the same
\* transaction_number
C20_UniqueUnderInterleaving ==
    Cardinality({transactions[i].transaction_number :
                    i \in 1..Len(transactions)}) = Len(transactions)


\* the rows table' has after those of table
Added(old, new) == SubSeq(new, Len(old) + 1, Len(new))

\* every reference of the ledger points at a row that exists, and a
\* transaction with journal entries has its line
RefIntegrity ==
    /\ \A i \in 1..Len(transactions) :
          transactions[i].document_id \in Ids(documents)
    /\ \A i \in 1..Len(transaction_lines) :
          transaction_lines[i].transaction_id \in Ids(transactions)
    /\ \A i \in 1..Len(journal_entries) :
          /\ journal_entries[i].transaction_id \in Ids(transactions)
          /\ LinesOf(journal_entries[i].transaction_id) # <<>>

\* a step commits to one table, and what it adds refers to rows committed
\* by earlier steps
CommitOrder ==
    /\ Cardinality({k \in 1..5 : ledger'[k] # ledger[k]}) <= 1
    /\ transactions' # transactions =>
          \A i \in 1..Len(Added(transactions, transactions')) :
              Added(transactions, transactions')[i].document_id \in Ids(documents)
    /\ transaction_lines' # transaction_lines =>
          \A i \in 1..Len(Added(transaction_lines, transaction_lines')) :
              Added(transaction_lines, transaction_lines')[i].transaction_id
                  \in Ids(transactions)
    /\ journal_entries' # journal_entries =>
          \A i \in 1..Len(Added(journal_entries, journal_entries')) :
              LET e == Added(journal_entries, journal_entries')[i]
              IN /\ e.transaction_id \in Ids(transactions)
                 /\ LinesOf(e.transaction_id) # <<>>
                 /\ {DefaultAccounts[k][1] : k \in 1..Len(DefaultAccounts)}
                       \subseteq AccountCodes

\* C21: a run commits document, transactions, transaction lines, default
\* accounts and journal entries in this order, so in every state, those
\* between two commits included, every document_id and transaction_id
\* refers to an existing row and no journal entry is there before its
\* transaction and that transaction's line
C21_CommitOrder == [](RefIntegrity) /\ [][CommitOrder]_vars

\* between the commit of the lines and the commit of the journal entries
C21_Witness ==
    /\ run[1].pc = "insert_journal"
    /\ transaction_lines # <<>>
    /\ accounts # <<>>
    /\ journal_entries = <<>>

\* after the last commit
C21_WitnessPosted ==
    /\ run[1].pc = "index"
    /\ Len(journal_entries) = 5


\* every row of old is in new, at its place and as it was
Kept(old, new) ==
    /\ Len(new) >= Len(old)
    /\ SubSeq(new, 1, Len(old)) = old

AppendOnly == \A k \in 1..5 : Kept(ledger[k], ledger'[k])

\* the transactions of the document of a run that returned
PostedOnce(p) ==
    \A i \in 1..Len(transactions) :
        transactions[i].document_id = run[p].doc_id =>
            LET lines == LinesOf(transactions[i].id)
            IN /\ Len(lines) = 1
               /\ lines[1].line_number = 1
               /\ Len(EntriesOf(transactions[i].id)) =
                     IF lines[1].tax_amount > 0 THEN 3 ELSE 2

\* C22: no step of an ingestion run updates or deletes a row of documents,
\* transactions, transaction_lines, accounts or journal_entries, and after
\* a run that returned every transaction of its document has exactly one
\* line, of line_number 1, and 2 journal entries, or 3 when its tax_amount
\* is positive
C22_AppendOnlyPostedOnce ==
    /\ [][AppendOnly]_vars
    /\ [](\A p \in Procs : run[p].outcome = "returned" => PostedOnce(p))

\* the second document's run returned, with a taxed row, and the first
\* document's rows are still there
C22_Witness ==
    /\ run[1].outcome = "returned"
    /\ run[1].doc_id = 2
    /\ Len(transactions) = 2
    /\ transactions[1].document_id = 1
    /\ transactions[2].document_id = 2
    /\ Len(EntriesOf(1)) = 2
    /\ Len(EntriesOf(2)) = 3


\* every row stored so far has amount = subtotal + tax_amount, tax_amount >= 0
ConsistentRows ==
    \A i \in 1..Len(transaction_lines) :
        LET l == transaction_lines[i]
        IN /\ l.tax_amount >= 0
           /\ l.transaction_id \in Ids(transactions)
           /\ transactions[l.transaction_id].amount = l.subtotal + l.tax_amount

\* C23: when every row has amount = subtotal + tax_amount and
\* tax_amount >= 0, the unfiltered reports satisfy activos -
\* total_pasivo_patrimonio = utilidad_neta, with patrimonio 0 and costos 0
C23_AccountingIdentity ==
    ConsistentRows =>
        LET balance == BalanceSheet(NoDate, NoDate)
            income == IncomeStatement(NoDate, NoDate)
        IN /\ balance.activos - balance.total_pasivo_patrimonio
                 = income.utilidad_neta
           /\ balance.patrimonio = 0
           /\ income.costos = 0

\* a taxed sale and a taxed purchase are posted
C23_Witness ==
    /\ ConsistentRows
    /\ Len(journal_entries) = 6
    /\ transactions[1].transaction_type # transactions[2].transaction_type
    /\ BalanceSheet(NoDate, NoDate).activos = 0
    /\ BalanceSheet(NoDate, NoDate).pasivos = 0
    /\ IncomeStatement(NoDate, NoDate).ingresos = 2
    /\ IncomeStatement(NoDate, NoDate).gastos_operacionales = 2

\* one taxed sale is posted: 3 - 1 = 2
C23_WitnessSale ==
    /\ ConsistentRows
    /\ Len(journal_entries) = 3
    /\ BalanceSheet(NoDate, NoDate).activos = 3
    /\ BalanceSheet(NoDate, NoDate).total_pasivo_patrimonio = 1
    /\ IncomeStatement(NoDate, NoDate).utilidad_neta = 2


\* every ingestion so far was successful: every transaction is posted
AllPosted == \A i \in 1..Len(transactions) : Posted(transactions[i].id)

\* C24: after successful ingestions, whatever subtotal and tax of the rows,
\* the unfiltered balance_sheet.activos equals the unfiltered
\* cash_flow.flujo_neto
C24_AssetsAreNetCash ==
    AllPosted =>
        BalanceSheet(NoDate, NoDate).activos = CashFlow(NoDate, NoDate).flujo_neto

\* a sale whose total is not subtotal + tax and a purchase with negative tax
C24_Witness ==
    /\ AllPosted
    /\ Len(transactions) = 2
    /\ transactions[1].transaction_type = "sales_invoice"
    /\ transactions[2].transaction_type = "purchase_invoice"
    /\ transactions[1].amount # transaction_lines[1].subtotal
                                 + transaction_lines[1].tax_amount
    /\ transaction_lines[2].tax_amount < 0
    /\ CashFlow(NoDate, NoDate).flujo_neto = 1
    /\ BalanceSheet(NoDate, NoDate).activos = 1


NonNegativeTax ==
    \A i \in 1..Len(transaction_lines) : transaction_lines[i].tax_amount >= 0

\* C25: after successful ingestions of rows with tax_amount >= 0,
\* tax_summary.iva_a_pagar equals the unfiltered balance_sheet.pasivos and
\* iva_total equals iva_ventas + iva_compras
C25_TaxPayable ==
    (AllPosted /\ NonNegativeTax) =>
        /\ TaxSummary.iva_a_pagar = BalanceSheet(NoDate, NoDate).pasivos
        /\ TaxSummary.iva_total = TaxSummary.iva_ventas + TaxSummary.iva_compras

\* two taxed sales
C25_Witness ==
    /\ AllPosted
    /\ NonNegativeTax
    /\ Len(transaction_lines) = 2
    /\ TaxSummary.iva_ventas = 2
    /\ TaxSummary.iva_a_pagar = 2
    /\ BalanceSheet(NoDate, NoDate).pasivos = 2

\* a taxed purchase and an untaxed sale
C25_WitnessPurchase ==
    /\ AllPosted
    /\ NonNegativeTax
    /\ TaxSummary.iva_compras = 1
    /\ TaxSummary.iva_ventas = 0
    /\ Len(transaction_lines) = 2
    /\ BalanceSheet(NoDate, NoDate).pasivos = 0 - 1


\* no step changes the status of a transaction that exists
StatusKept ==
    \A i \in 1..Len(transactions) :
        /\ i <= Len(transactions')
        /\ transactions'[i].status = transactions[i].status

\* C26: every transaction ingest_excel creates has status 'completed',
\* nothing changes a status afterwards, and aging_analysis, which selects
\* the pending sales invoices, returns an empty list
C26_NeverPending ==
    /\ [](/\ \A i \in 1..Len(transactions) : transactions[i].status = "completed"
          /\ AgingAnalysis.items = {})
    /\ [][StatusKept]_vars

\* two sales invoices are in the ledger and aging_analysis is empty
C26_Witness ==
    /\ Len(transactions) = 2
    /\ \A i \in 1..2 : transactions[i].transaction_type = "sales_invoice"
    /\ AllPosted
    /\ AgingAnalysis.items = {}


\* a numeric cell of the row fails to parse
FailsToParse(row) == ~AllParse(row)

\* the run is in or past the loop and the last row it read fails to parse
AfterBadRow(p) ==
    /\ run[p].pc \in {"rows"} \cup AfterInsert
    /\ run[p].idx > 0
    /\ FailsToParse(run[p].row)

\* C27: when one numeric cell of a row fails to parse, quantity is 1 and
\* unit_price, subtotal, tax_amount and amount are 0 whatever the other
\* cells hold, and the transaction is posted with two journal entries whose
\* debit and credit are 0
C27_ResetTogether ==
    \A p \in Procs :
        AfterBadRow(p) =>
            LET line == run[p].transaction_lines[run[p].idx]
                tx == run[p].transactions[run[p].idx]
            IN /\ line.quantity = 1
               /\ line.unit_price = 0
               /\ line.subtotal = 0
               /\ line.tax_amount = 0
               /\ tx.amount = 0
               /\ run[p].pc = "index" =>
                     LET entries == EntriesOf(line.transaction_id)
                     IN /\ Len(entries) = 2
                        /\ \A i \in 1..2 : entries[i].debit = 0
                                           /\ entries[i].credit = 0

\* the row with a text in the subtotal cell, tax 1 and total 3 is posted
C27_Witness ==
    /\ AfterBadRow(1)
    /\ run[1].pc = "index"
    /\ run[1].row.amount = Num(3)
    /\ run[1].row.tax_amount = Num(1)
    /\ Len(EntriesOf(run[1].transaction_lines[run[1].idx].transaction_id)) = 2


\* an entry without the id the table gave it
WithoutId(e) == [f \in DOMAIN e \ {"id"} |-> e[f]]

\* the lines of the run have been paired and its document is a sheet
Paired(p) == run[p].pc \in AfterInsert \ {"select_ids"} /\ run[p].doc_type # "pdf"

\* the i-th line of the run is attached to the transaction made from the
\* i-th row, and the entries for that transaction come from that row
PairedWithOwnRow(p, i) ==
    LET l == run[p].transaction_lines[i]
        t == run[p].transactions[i]
    IN /\ l.transaction_id \in Ids(transactions)
       /\ LET tx == transactions[l.transaction_id]
          IN /\ tx.document_id = run[p].doc_id
             /\ tx.transaction_number = t.transaction_number
             /\ tx.amount = t.amount
             /\ l.debit + l.credit = tx.amount
             /\ SelectSeq(run[p].journal_entries_to_insert,
                          LAMBDA e : e.transaction_id = tx.id)
                   = GenerateJournalEntries(tx.id, tx.transaction_date,
                         tx.transaction_type, t.amount, l.subtotal,
                         l.tax_amount, tx.description)

\* C28: in every run, also on a ledger that holds transactions of earlier
\* documents, the i-th line gets the id of the transaction created from the
\* i-th row, the journal entries of a transaction are computed from that
\* row's amount, subtotal and tax_amount, and no line or entry is attached
\* to a transaction of another document
C28_PairedByRow ==
    /\ \A p \in Procs :
          Paired(p) =>
              /\ \A i \in 1..Len(run[p].transaction_lines) : PairedWithOwnRow(p, i)
              /\ \A i \in 1..Len(run[p].journal_entries_to_insert) :
                    run[p].journal_entries_to_insert[i].transaction_id
                        \in {run[p].transaction_lines[k].transaction_id :
                                k \in 1..Len(run[p].transaction_lines)}
    /\ \A i \in 1..Len(transactions) :
          /\ Len(LinesOf(transactions[i].id)) <= 1
          /\ Len(EntriesOf(transactions[i].id)) <= 3
          /\ \A k \in 1..Len(LinesOf(transactions[i].id)) :
                LinesOf(transactions[i].id)[k].debit
                  + LinesOf(transactions[i].id)[k].credit = transactions[i].amount

\* the run of the second document, on a ledger that holds the first's
\* transaction with another amount
C28_Witness ==
    /\ Paired(1)
    /\ run[1].doc_id = 2
    /\ run[1].pc = "index"
    /\ Len(transactions) = 2
    /\ transactions[1].document_id = 1
    /\ transactions[1].amount # transactions[2].amount
    /\ Len(run[1].transaction_lines) = 1
    /\ run[1].transaction_lines[1].transaction_id = 2

\* a run of two rows with different amounts
C28_WitnessBatch ==
    /\ Paired(1)
    /\ run[1].pc = "index"
    /\ Len(run[1].transaction_lines) = 2
    /\ run[1].transactions[1].amount # run[1].transactions[2].amount
    /\ Len(journal_entries) = 5


\* the sum of the positive amounts of the sales invoices that have a
\* line of the category
SalesOfCategory(txs, lines, category) ==
    SumSeq([i \in 1..Len(txs) |->
              IF /\ txs[i].transaction_type = "sales_invoice"
                 /\ txs[i].amount > 0
                 /\ \E k \in 1..Len(lines) :
                       /\ lines[k].transaction_id = txs[i].id
                       /\ lines[k].category = category
              THEN txs[i].amount ELSE 0])

\* what expenses_by_category() is to return for the tables
SalesByCategory(txs, lines) ==
    {<<lines[k].category, SalesOfCategory(txs, lines, lines[k].category)>> :
        k \in {j \in 1..Len(lines) :
                  /\ lines[j].transaction_id \in Ids(txs)
                  /\ txs[lines[j].transaction_id].transaction_type = "sales_invoice"
                  /\ txs[lines[j].transaction_id].amount > 0}}

C29_WitnessOrder ==
    /\ ExpensesByCategory(NoDate, NoDate).items = {<<"General", 2>>, <<"A", 3>>}
    /\ ExpensesRows(NoDate, NoDate) = {<< <<"A", 3>>, <<"General", 2>> >>}


\* the numbers of the transactions table
TableNumbers(txs) == {txs[i].transaction_number : i \in 1..Len(txs)}

\* what a step of the run of p does to its set of used numbers
UsedNumbersStep(p) ==
    LET r == run[p]
        q == run'[p]
    IN /\ (r.pc = "read_existing" /\ q.pc = "rows") =>
             q.existing_tx_numbers = TableNumbers(transactions)
       /\ (r.pc = "rows" /\ q.pc = "rows" /\ q.idx = r.idx + 1) =>
             LET number == q.transactions[q.idx].transaction_number
             IN /\ number \notin r.existing_tx_numbers
                /\ number \notin BatchNumbers(r)
                /\ q.existing_tx_numbers = r.existing_tx_numbers \cup {number}
       /\ (r.pc \in {"rows"} \cup AfterInsert /\ q.pc \in AfterInsert) =>
             q.existing_tx_numbers = r.existing_tx_numbers

\* C30: a run reads the set of used numbers from the ledger once, before
\* its first row; the set grows by exactly the number assigned to each row,
\* and no number is assigned to two rows of a batch, also when a row's raw
\* number is a suffix form generated for an earlier row
C30_UsedNumbers ==
    /\ [][\A p \in Procs : UsedNumbersStep(p)]_vars
    /\ [](\A p \in Procs :
             /\ Cardinality(BatchNumbers(run[p])) = Len(run[p].transactions)
             /\ run[p].pc = "rows" =>
                   BatchNumbers(run[p]) \subseteq run[p].existing_tx_numbers)

\* a batch X, X, X-DUP1: the third row's raw number is the number
\* generated for the second
C30_Witness ==
    /\ run[1].pc = "rows"
    /\ run[1].idx = 3
    /\ run[1].original_tx_numbers = << <<"X">>, <<"X">>, <<"X", 1>> >>
    /\ run[1].transactions[2].transaction_number = <<"X", 1>>
    /\ run[1].transactions[3].transaction_number = <<"X", 1, 1>>


=============================================================================
